---- MODULE Spec2Model ----
(***************************************************************************)
(* Model of VerifyGCOptions.Run (src/pkg/verify.go): discovery of the      *)
(* resource catalog, paginated listing into the byGVR / byUID indexes,     *)
(* validation of every ownerReference, and the final summary.              *)
(*                                                                         *)
(* Strings that the code parses are kept structured so that parsing is     *)
(* computed: an apiVersion is the sequence of its "/"-separated segments   *)
(* ("g1/v1" is <<"g1","v1">>, "v1" is <<"v1">>, "" is <<>>).               *)
(***************************************************************************)
EXTENDS Integers, Sequences, FiniteSets, TLC

VARIABLES
    Output,               \* VerifyGCOptions.Output
    store,                \* the cluster: GroupResource -> sequence of stored objects
    disc1, disc2,         \* what the two discovery calls will answer
    listFailAt,           \* GroupResource -> index of the page call that fails (0: none)
    pc,                   \* position of Run
    returned,             \* "none" while running, then "nil" or "err"
    errorCount, warningCount,
    gvDiscoveryFailures,  \* key set of the map of the same name
    allGroupResources,    \* the API resources the REST mapper was built from
    gvrs,                 \* sorted sequence of GroupVersionResource
    grListErrors,         \* key set of the map of the same name
    byGVR, byUID,         \* the two indexes
    ti, cont,             \* listing: index into gvrs, continue token (offset)
    vi, vj, vk,           \* validation: indexes of type, child, ownerReference
    initialized,          \* tabular header written
    tabbuf,               \* rows buffered in the tabwriter
    stdout,               \* records written to Stdout
    stderr,               \* lines written to Stderr
    findings,             \* every call of outputRefMessage, in order
    calls,                \* every call made to the discovery and metadata clients
    checked               \* positions of the ownerReferences checked so far

vars == <<Output, store, disc1, disc2, listFailAt, pc, returned, errorCount,
          warningCount, gvDiscoveryFailures, allGroupResources, gvrs,
          grListErrors, byGVR, byUID, ti, cont, vi, vj, vk, initialized,
          tabbuf, stdout, stderr, findings, calls, checked>>

(***************************************************************************)
(* Bounds of the explored inputs.                                          *)
(***************************************************************************)
MaxOwnerRefs == 2      \* ownerReferences per object
MaxObjects == 2        \* objects in the cluster
PageSize == 1          \* items per page of a paginated list

levelError == "Error"
levelWarning == "Warning"

(***************************************************************************)
(* Strings: byte-wise order and lower-casing over the strings in use.      *)
(***************************************************************************)
StrRank(s) ==
    CASE s = "" -> 0
      [] s = "componentstatuses" -> 1
      [] s = "g1" -> 2
      [] s = "g2" -> 3
      [] s = "nodes" -> 4
      [] s = "v1" -> 5
      [] s = "v1beta1" -> 6
      [] s = "widgets" -> 7

StrLess(a, b) == StrRank(a) < StrRank(b)

ToLower(s) ==
    CASE s = "Node" -> "node"
      [] s = "Widget" -> "widget"
      [] s = "ComponentStatus" -> "componentstatus"
      [] OTHER -> s

(***************************************************************************)
(* schema.GroupVersion and friends.                                        *)
(***************************************************************************)
EmptyGV == [group |-> "", version |-> ""]

\* schema.ParseGroupVersion: [ok, gv]
ParseGroupVersion(s) ==
    IF Len(s) = 0 \/ s = <<"", "">>
    THEN [ok |-> TRUE, gv |-> EmptyGV]
    ELSE IF Len(s) = 1
    THEN [ok |-> TRUE, gv |-> [group |-> "", version |-> s[1]]]
    ELSE IF Len(s) = 2
    THEN [ok |-> TRUE, gv |-> [group |-> s[1], version |-> s[2]]]
    ELSE [ok |-> FALSE, gv |-> EmptyGV]

\* schema.GroupVersion.String
GVString(gv) ==
    IF gv.group # "" THEN <<gv.group, gv.version>>
    ELSE IF gv.version # "" THEN <<gv.version>>
    ELSE <<>>

GVOf(r) == [group |-> r.group, version |-> r.version]
GroupResource(r) == [group |-> r.group, resource |-> r.resource]
GVROf(r) == [group |-> r.group, version |-> r.version, resource |-> r.resource]

EmptyGVK == [group |-> "", version |-> "", kind |-> ""]

(***************************************************************************)
(* The API surface of the server: every resource of every group/version,   *)
(* and the versions of each group in the server's order (first one is the  *)
(* preferred version).                                                     *)
(***************************************************************************)
ServerResources ==
    { [group |-> "", version |-> "v1", resource |-> "nodes", kind |-> "Node",
       namespaced |-> FALSE, gcVerbs |-> TRUE],
      [group |-> "", version |-> "v1", resource |-> "componentstatuses",
       kind |-> "ComponentStatus", namespaced |-> FALSE, gcVerbs |-> FALSE],
      [group |-> "g1", version |-> "v1", resource |-> "widgets", kind |-> "Widget",
       namespaced |-> TRUE, gcVerbs |-> TRUE],
      [group |-> "g1", version |-> "v1beta1", resource |-> "widgets", kind |-> "Widget",
       namespaced |-> TRUE, gcVerbs |-> TRUE],
      [group |-> "g2", version |-> "v1", resource |-> "widgets", kind |-> "Widget",
       namespaced |-> TRUE, gcVerbs |-> TRUE] }

ServerGroups == {"", "g1", "g2"}

GroupVersions(g) ==
    CASE g = "" -> <<"v1">>
      [] g = "g1" -> <<"v1", "v1beta1">>
      [] g = "g2" -> <<"v1">>

ServerGVs == { GVOf(r) : r \in ServerResources }
ServerGRs == { GroupResource(r) : r \in ServerResources }

\* group/versions whose discovery may fail
FailableGVs == { [group |-> "g2", version |-> "v1"] }

\* resource types whose listing may fail
FailableGRs == { [group |-> "g1", resource |-> "widgets"],
                 [group |-> "g2", resource |-> "widgets"] }

(***************************************************************************)
(* discovery: the two calls, as functions of the group/versions that       *)
(* failed in that call.                                                    *)
(***************************************************************************)
\* restmapper.GetAPIGroupResources: the resources of every group/version
\* that could be retrieved
GetAPIGroupResources(failed) ==
    { r \in ServerResources : GVOf(r) \notin failed }

\* first version of group g, in the server's order from position i on, that
\* was retrieved and serves the resource; "" when there is none
RECURSIVE FirstVersionWith(_, _, _, _)
FirstVersionWith(g, res, failed, i) ==
    IF i > Len(GroupVersions(g)) THEN ""
    ELSE IF /\ [group |-> g, version |-> GroupVersions(g)[i]] \notin failed
            /\ \E r \in ServerResources :
                  r.group = g /\ r.version = GroupVersions(g)[i] /\ r.resource = res
         THEN GroupVersions(g)[i]
         ELSE FirstVersionWith(g, res, failed, i + 1)

\* discovery.ServerPreferredResources: one version per group/resource, the
\* group's preferred version when it serves the resource and was retrieved
ServerPreferredResources(failed) ==
    { r \in ServerResources :
        /\ GVOf(r) \notin failed
        /\ LET pv == GroupVersions(r.group)[1]
               pref == [group |-> r.group, version |-> pv]
               prefHas == /\ pref \notin failed
                          /\ \E q \in ServerResources :
                                q.group = r.group /\ q.version = pv
                                /\ q.resource = r.resource
           IN IF prefHas THEN r.version = pv
              ELSE r.version = FirstVersionWith(r.group, r.resource, failed, 1) }

\* discovery.FilteredBy(SupportsAllVerbs{list, get, delete}, ...)
FilteredBy(resources) == { r \in resources : r.gcVerbs }

\* discovery.GroupVersionResources: the key set of the result
GroupVersionResources(resources) == { GVROf(r) : r \in resources }

\* a variant that compares the groups the wrong way round
GVRLessGroupReversed(a, b) ==
    IF a.group # b.group THEN StrLess(b.group, a.group)
    ELSE IF a.version # b.version THEN StrLess(a.version, b.version)
    ELSE StrLess(a.resource, b.resource)

\* the comparison function handed to sort.Slice
GVRLess(a, b) ==
    IF a.group # b.group THEN StrLess(a.group, b.group)
    ELSE IF a.version # b.version THEN StrLess(a.version, b.version)
    ELSE StrLess(a.resource, b.resource)

\* sort.Slice over the keys of gvrMap
RECURSIVE SortGVRs(_)
SortGVRs(S) ==
    IF S = {} THEN <<>>
    ELSE LET m == CHOOSE x \in S : \A y \in S \ {x} : GVRLess(x, y)
         IN <<m>> \o SortGVRs(S \ {m})

(***************************************************************************)
(* The REST mapper built from the discovered resources.                    *)
(***************************************************************************)
\* restMapper.KindFor(gvr); the empty GroupVersionKind when it fails
KindFor(resources, gvr) ==
    IF \E r \in resources : GVROf(r) = gvr
    THEN LET r == CHOOSE r \in resources : GVROf(r) = gvr
         IN [group |-> r.group, version |-> r.version, kind |-> r.kind]
    ELSE EmptyGVK

\* first version of the group in which the mapper knows the kind
RECURSIVE FirstMappedVersion(_, _, _, _)
FirstMappedVersion(resources, g, kind, i) ==
    IF i > Len(GroupVersions(g)) THEN ""
    ELSE IF \E r \in resources :
               /\ r.group = g /\ r.version = GroupVersions(g)[i]
               /\ (r.kind = kind \/ ToLower(r.kind) = kind)
         THEN GroupVersions(g)[i]
         ELSE FirstMappedVersion(resources, g, kind, i + 1)

\* restMapper.RESTMapping(groupKind, version): [ok, resource, namespaced].
\* The mapper registers every kind under its own name and under its
\* lower-cased name; without a version it answers with the first version of
\* the group that has the kind.
RESTMapping(resources, group, kind, version) ==
    LET v == IF version # "" THEN version
             ELSE IF group \in ServerGroups
                  THEN FirstMappedVersion(resources, group, kind, 1)
                  ELSE ""
        hits == { r \in resources :
                    /\ r.group = group /\ r.version = v
                    /\ (r.kind = kind \/ ToLower(r.kind) = kind) }
    IN IF hits = {}
       THEN [ok |-> FALSE, resource |-> [group |-> "", version |-> "", resource |-> ""],
             namespaced |-> FALSE]
       ELSE LET r == CHOOSE r \in hits : TRUE
            IN [ok |-> TRUE, resource |-> GVROf(r), namespaced |-> r.namespaced]

(***************************************************************************)
(* Small helpers.                                                          *)
(***************************************************************************)
Min(a, b) == IF a < b THEN a ELSE b

\* every sequence over S of length at most n
SeqsUpTo(S, n) == UNION { [1..k -> S] : k \in 0..n }

\* every ordering of the finite set S
Orderings(S) ==
    { s \in [1..Cardinality(S) -> S] : \A i, j \in 1..Cardinality(S) : i # j => s[i] # s[j] }

\* pluralize(count, singular, plural)
pluralize(count, singular, plural) ==
    IF count = 1 THEN <<count, singular>> ELSE <<count, plural>>

(***************************************************************************)
(* The check of one ownerReference of one child against the indexes.       *)
(***************************************************************************)
NoFinding == [level |-> "none", msg |-> <<>>]

\* a variant that lower-cases both kinds
LowerKindMatchesBothSides(actualKind, refKind) == ToLower(actualKind) = ToLower(refKind)

\* the tolerance for an all-lowercase kind: the kind of the candidate is
\* lower-cased, the kind of the ownerReference is taken as it is
LowerKindMatches(actualKind, refKind) == ToLower(actualKind) = refKind

\* a variant in which the name flag is overwritten by every candidate, so
\* that only the last candidate of the bucket decides it
RECURSIVE CrossCheckLastName(_, _, _, _, _, _)
CrossCheckLastName(actualOwners, i, ownerRef, ownerGV, child, acc) ==
    IF i > Len(actualOwners) THEN acc
    ELSE
      LET actualOwner == actualOwners[i]
          sameName == actualOwner.name = ownerRef.name
          sameNs == actualOwner.namespace = "" \/ actualOwner.namespace = child.namespace
          untyped == actualOwner.apiVersion = <<>> \/ actualOwner.kind = ""
          actualOwnerGV == ParseGroupVersion(actualOwner.apiVersion).gv
          sameGK == \/ untyped
                    \/ /\ actualOwner.kind = ownerRef.kind
                       /\ actualOwnerGV.group = ownerGV.group
                    \/ /\ ToLower(actualOwner.kind) = ownerRef.kind
                       /\ actualOwnerGV.group = ownerGV.group
          next == [ nameOk |-> sameName,
                    actualName |-> IF sameName THEN acc.actualName ELSE actualOwner.name,
                    namespaceOk |-> acc.namespaceOk \/ sameNs,
                    actualNamespace |-> IF sameNs THEN acc.actualNamespace
                                        ELSE actualOwner.namespace,
                    groupKindOk |-> acc.groupKindOk \/ sameGK,
                    actualGVK |-> IF sameGK THEN acc.actualGVK
                                  ELSE [group |-> actualOwnerGV.group,
                                        version |-> actualOwnerGV.version,
                                        kind |-> actualOwner.kind] ]
      IN CrossCheckLastName(actualOwners, i + 1, ownerRef, ownerGV, child, next)

\* a variant in which a candidate sets the flags only when it satisfies all
\* three aspects itself
RECURSIVE CrossCheckSameCandidate(_, _, _, _, _, _)
CrossCheckSameCandidate(actualOwners, i, ownerRef, ownerGV, child, acc) ==
    IF i > Len(actualOwners) THEN acc
    ELSE
      LET actualOwner == actualOwners[i]
          sameName == actualOwner.name = ownerRef.name
          sameNs == actualOwner.namespace = "" \/ actualOwner.namespace = child.namespace
          untyped == actualOwner.apiVersion = <<>> \/ actualOwner.kind = ""
          actualOwnerGV == ParseGroupVersion(actualOwner.apiVersion).gv
          sameGK == \/ untyped
                    \/ /\ actualOwner.kind = ownerRef.kind
                       /\ actualOwnerGV.group = ownerGV.group
                    \/ /\ ToLower(actualOwner.kind) = ownerRef.kind
                       /\ actualOwnerGV.group = ownerGV.group
          all == sameName /\ sameNs /\ sameGK
          next == [ nameOk |-> acc.nameOk \/ all,
                    actualName |-> IF sameName THEN acc.actualName ELSE actualOwner.name,
                    namespaceOk |-> acc.namespaceOk \/ all,
                    actualNamespace |-> IF sameNs THEN acc.actualNamespace
                                        ELSE actualOwner.namespace,
                    groupKindOk |-> acc.groupKindOk \/ all,
                    actualGVK |-> IF sameGK THEN acc.actualGVK
                                  ELSE [group |-> actualOwnerGV.group,
                                        version |-> actualOwnerGV.version,
                                        kind |-> actualOwner.kind] ]
      IN CrossCheckSameCandidate(actualOwners, i + 1, ownerRef, ownerGV, child, next)

\* the loop over actualOwners: the three flags and the three "actual" values
\* after the candidates i..Len(actualOwners), starting from acc
RECURSIVE CrossCheck(_, _, _, _, _, _)
CrossCheck(actualOwners, i, ownerRef, ownerGV, child, acc) ==
    IF i > Len(actualOwners) THEN acc
    ELSE
      LET actualOwner == actualOwners[i]
          sameName == actualOwner.name = ownerRef.name
          sameNs == actualOwner.namespace = "" \/ actualOwner.namespace = child.namespace
          untyped == actualOwner.apiVersion = <<>> \/ actualOwner.kind = ""
          actualOwnerGV == ParseGroupVersion(actualOwner.apiVersion).gv
          sameGK == \/ untyped
                    \/ /\ actualOwner.kind = ownerRef.kind
                       /\ actualOwnerGV.group = ownerGV.group
                    \/ /\ LowerKindMatches(actualOwner.kind, ownerRef.kind)
                       /\ actualOwnerGV.group = ownerGV.group
          next == [ nameOk |-> acc.nameOk \/ sameName,
                    actualName |-> IF sameName THEN acc.actualName ELSE actualOwner.name,
                    namespaceOk |-> acc.namespaceOk \/ sameNs,
                    actualNamespace |-> IF sameNs THEN acc.actualNamespace
                                        ELSE actualOwner.namespace,
                    groupKindOk |-> acc.groupKindOk \/ sameGK,
                    actualGVK |-> IF sameGK THEN acc.actualGVK
                                  ELSE [group |-> actualOwnerGV.group,
                                        version |-> actualOwnerGV.version,
                                        kind |-> actualOwner.kind] ]
      IN CrossCheck(actualOwners, i + 1, ownerRef, ownerGV, child, next)

CrossCheckStart ==
    [ nameOk |-> FALSE, actualName |-> "", namespaceOk |-> FALSE,
      actualNamespace |-> "", groupKindOk |-> FALSE, actualGVK |-> EmptyGVK ]

\* a variant that warns as soon as any discovery failure was recorded
ResolveFindingAnyFailure(discoveryFailures, ownerGV, ownerRef) ==
    IF discoveryFailures # {}
    THEN [level |-> levelWarning,
          msg |-> <<"failed resolving resources for", ownerRef.apiVersion>>]
    ELSE [level |-> levelError,
          msg |-> <<"cannot resolve owner apiVersion/kind", ownerGV, ownerRef.kind>>]

\* the finding when RESTMapping fails
ResolveFinding(discoveryFailures, ownerGV, ownerRef) ==
    IF ownerGV \in discoveryFailures
    THEN [level |-> levelWarning,
          msg |-> <<"failed resolving resources for", ownerRef.apiVersion>>]
    ELSE [level |-> levelError,
          msg |-> <<"cannot resolve owner apiVersion/kind", ownerGV, ownerRef.kind>>]

\* the finding when a cluster-scoped child names a namespaced owner type
ScopeFinding(ownerGV, ownerRef) ==
    [level |-> levelError,
     msg |-> <<"cannot reference namespaced type as owner", GVString(ownerGV), ownerRef.kind>>]

\* a variant that warns as soon as any list failure was recorded
ExistenceFindingAnyFailure(listErrors, ownerGR) ==
    IF listErrors # {}
    THEN [level |-> levelWarning, msg |-> <<"could not list parent resource", ownerGR>>]
    ELSE [level |-> levelError, msg |-> <<"no object found for uid">>]

\* the finding when no object has the uid
ExistenceFinding(listErrors, ownerGR) ==
    IF ownerGR \in listErrors
    THEN [level |-> levelWarning, msg |-> <<"could not list parent resource", ownerGR>>]
    ELSE [level |-> levelError, msg |-> <<"no object found for uid">>]

\* a variant that reports the name before the namespace
CrossFindingNameFirst(cc, ownerGV, ownerRef) ==
    IF ~cc.nameOk
    THEN [level |-> levelError,
          msg |-> <<"ownerReference name does not match owner name",
                    ownerRef.name, cc.actualName>>]
    ELSE IF ~cc.namespaceOk
    THEN [level |-> levelError,
          msg |-> <<"child namespace does not match owner namespace", cc.actualNamespace>>]
    ELSE IF ~cc.groupKindOk
    THEN [level |-> levelError,
          msg |-> <<"ownerReference group/kind does not match owner group/kind",
                    ownerGV.group, ownerRef.kind, cc.actualGVK.group, cc.actualGVK.kind>>]
    ELSE NoFinding

\* the finding after the loop over actualOwners
CrossFinding(cc, ownerGV, ownerRef) ==
    IF ~cc.namespaceOk
    THEN [level |-> levelError,
          msg |-> <<"child namespace does not match owner namespace", cc.actualNamespace>>]
    ELSE IF ~cc.nameOk
    THEN [level |-> levelError,
          msg |-> <<"ownerReference name does not match owner name",
                    ownerRef.name, cc.actualName>>]
    ELSE IF ~cc.groupKindOk
    THEN [level |-> levelError,
          msg |-> <<"ownerReference group/kind does not match owner group/kind",
                    ownerGV.group, ownerRef.kind, cc.actualGVK.group, cc.actualGVK.kind>>]
    ELSE NoFinding

\* a variant that looks for the owner before it checks the scope
CheckRefExistenceFirst(resources, discoveryFailures, listErrors, uidIndex, child, ownerRef) ==
    LET parsed == ParseGroupVersion(ownerRef.apiVersion)
        ownerGV == parsed.gv
        mapping == RESTMapping(resources, ownerGV.group, ownerRef.kind, ownerGV.version)
        ownerGR == GroupResource(mapping.resource)
        actualOwners == uidIndex[ownerRef.uid]
        cc == CrossCheck(actualOwners, 1, ownerRef, ownerGV, child, CrossCheckStart)
    IN IF ~parsed.ok
       THEN [level |-> levelError, msg |-> <<"invalid owner apiVersion", ownerRef.apiVersion>>]
       ELSE IF ~mapping.ok
       THEN ResolveFinding(discoveryFailures, ownerGV, ownerRef)
       ELSE IF Len(actualOwners) = 0
       THEN ExistenceFinding(listErrors, ownerGR)
       ELSE IF mapping.namespaced /\ child.namespace = ""
       THEN ScopeFinding(ownerGV, ownerRef)
       ELSE CrossFinding(cc, ownerGV, ownerRef)

\* the body of the innermost loop of Run: the finding for one ownerReference,
\* or NoFinding
CheckRef(resources, discoveryFailures, listErrors, uidIndex, child, ownerRef) ==
    LET parsed == ParseGroupVersion(ownerRef.apiVersion)
        ownerGV == parsed.gv
        mapping == RESTMapping(resources, ownerGV.group, ownerRef.kind, ownerGV.version)
        ownerGR == GroupResource(mapping.resource)
        actualOwners == uidIndex[ownerRef.uid]
        cc == CrossCheck(actualOwners, 1, ownerRef, ownerGV, child, CrossCheckStart)
    IN IF ~parsed.ok
       THEN [level |-> levelError, msg |-> <<"invalid owner apiVersion", ownerRef.apiVersion>>]
       ELSE IF ~mapping.ok
       THEN ResolveFinding(discoveryFailures, ownerGV, ownerRef)
       ELSE IF mapping.namespaced /\ child.namespace = ""
       THEN ScopeFinding(ownerGV, ownerRef)
       ELSE IF Len(actualOwners) = 0
       THEN ExistenceFinding(listErrors, ownerGR)
       ELSE CrossFinding(cc, ownerGV, ownerRef)

(***************************************************************************)
(* The explored inputs: the objects of the cluster, the answers of the     *)
(* discovery calls and the list calls that fail.                           *)
(***************************************************************************)
Outputs == {"", "json"}
Names == {"n1", "n2"}
UIDs == {"u1", "u2"}
Namespaces == {"ns1", "ns2"}

\* resource types that hold objects
StoredGRs == { GroupResource(r) : r \in FilteredBy(ServerResources) }

\* the resource record the objects of a type are created under: the
\* preferred version of the group
CreatedAs(gr) ==
    CHOOSE r \in ServerResources :
        GroupResource(r) = gr /\ r.version = GroupVersions(gr.group)[1]

\* ownerReferences an object may carry; they name n1 / u1
OwnerRefPool ==
    { [apiVersion |-> x[1], kind |-> x[2], name |-> "n1", uid |-> "u1"] :
        x \in { << <<"v1">>, "Node" >>, << <<"v1">>, "node" >>, << <<"v1">>, "Widget" >>,
                << <<"g1", "v1">>, "Widget" >>, << <<"g1", "v1beta1">>, "Widget" >>,
                << <<"g2", "v1">>, "Widget" >>, << <<"a", "b", "c">>, "Node" >> } }

\* an object of type gr; it either carries the apiVersion and kind it was
\* created with or leaves both empty
Object(gr, typed, ns, n, u, refs) ==
    [ gr |-> gr,
      obj |-> [ apiVersion |-> IF typed THEN GVString(GVOf(CreatedAs(gr))) ELSE <<>>,
                kind |-> IF typed THEN CreatedAs(gr).kind ELSE "",
                namespace |-> IF CreatedAs(gr).namespaced THEN ns ELSE "",
                name |-> n, uid |-> u, ownerReferences |-> refs ] ]

\* objects that carry the ownerReferences refs
Children(refs) ==
    { Object(gr, TRUE, "ns1", "n1", u, refs) : gr \in StoredGRs, u \in UIDs }

\* objects an ownerReference may point at: every name, namespace and type
Candidates ==
    { Object(gr, typed, ns, n, "u1", <<>>) :
        gr \in StoredGRs, typed \in BOOLEAN, ns \in Namespaces, n \in Names }

\* the same with one name and one namespace
PlainCandidates ==
    { Object(gr, typed, "ns1", "n1", "u1", <<>>) : gr \in StoredGRs, typed \in BOOLEAN }

\* typed candidates that carry their kind in lower case
LowerKindCandidates ==
    { [c EXCEPT !.obj.kind = ToLower(@)] : c \in { d \in PlainCandidates : d.obj.kind # "" } }

\* the objects of type gr among placed[i..], in order
RECURSIVE ItemsOf(_, _, _)
ItemsOf(placed, gr, i) ==
    IF i > Len(placed) THEN <<>>
    ELSE IF placed[i].gr = gr
         THEN <<placed[i].obj>> \o ItemsOf(placed, gr, i + 1)
         ELSE ItemsOf(placed, gr, i + 1)

StoreOf(placed) == [gr \in ServerGRs |-> ItemsOf(placed, gr, 1)]

\* the objects that carry ownerReferences, with up to n of them
ChildrenUpTo(n) == UNION { Children(refs) : refs \in SeqsUpTo(OwnerRefPool, n) }

\* answers of a discovery call: complete, partial (some group/versions
\* failed), or failed altogether; the second call may also return a
\* resource list whose GroupVersion does not parse
DiscOk == [kind |-> "ok", failed |-> {}]

Disc1Outcomes ==
    { DiscOk, [kind |-> "fatal", failed |-> {}] }
    \cup { [kind |-> "partial", failed |-> f] : f \in (SUBSET FailableGVs) \ {{}} }

Disc2Outcomes == Disc1Outcomes \cup { [kind |-> "malformed", failed |-> {}] }

\* for every type, the page call that fails (0: none)
ListFailures ==
    { [gr \in ServerGRs |-> IF gr \in FailableGRs THEN f[gr] ELSE 0] :
        f \in [FailableGRs -> 0..2] }

NoListFailure == [gr \in ServerGRs |-> 0]

EmptyIndexByGVR == [g \in { GVROf(r) : r \in ServerResources } |-> <<>>]
EmptyIndexByUID == [u \in UIDs |-> <<>>]

\* the state of Run at its first statement
InitRun ==
    /\ pc = "discover1"
    /\ returned = "none"
    /\ errorCount = 0
    /\ warningCount = 0
    /\ gvDiscoveryFailures = {}
    /\ allGroupResources = {}
    /\ gvrs = <<>>
    /\ grListErrors = {}
    /\ byGVR = EmptyIndexByGVR
    /\ byUID = EmptyIndexByUID
    /\ ti = 1 /\ cont = 0
    /\ vi = 1 /\ vj = 1 /\ vk = 1
    /\ initialized = FALSE
    /\ tabbuf = <<>>
    /\ stdout = <<>>
    /\ stderr = <<>>
    /\ findings = <<>>
    /\ calls = <<>>
    /\ checked = <<>>

\* a server that answers every call
InitNoFailure ==
    /\ disc1 = DiscOk
    /\ disc2 = DiscOk
    /\ listFailAt = NoListFailure

\* one object with up to MaxOwnerRefs ownerReferences and at most one plain
\* candidate
InitManyRefs ==
    /\ InitNoFailure
    /\ \/ store = StoreOf(<<>>)
       \/ \E first \in ChildrenUpTo(MaxOwnerRefs), rest \in SeqsUpTo(PlainCandidates, 1) :
             store = StoreOf(<<first>> \o rest)

\* at most MaxObjects objects: one object with at most one ownerReference
\* among candidates of every shape
InitManyCandidates ==
    /\ InitNoFailure
    /\ \E first \in ChildrenUpTo(1), rest \in SeqsUpTo(Candidates, MaxObjects - 1) :
          store = StoreOf(<<first>> \o rest)

\* two objects with one ownerReference each
InitTwoChildren ==
    /\ InitNoFailure
    /\ \E first \in ChildrenUpTo(1) \ Children(<<>>),
          second \in ChildrenUpTo(1) \ Children(<<>>) :
          store = StoreOf(<<first, second>>)

\* every combination of failures of the server, with one object with at most
\* one ownerReference, which does not own itself, and at most one plain
\* candidate
InitFailures ==
    /\ disc1 \in Disc1Outcomes
    /\ disc2 \in Disc2Outcomes
    /\ listFailAt \in ListFailures
    /\ \E first \in ChildrenUpTo(1), rest \in SeqsUpTo(PlainCandidates, 1) :
          /\ first.obj.uid = "u2"
          /\ store = StoreOf(<<first>> \o rest)

\* one object with at most one ownerReference and a candidate that carries
\* its kind in lower case
InitLowerKind ==
    /\ InitNoFailure
    /\ \E first \in ChildrenUpTo(1), second \in LowerKindCandidates :
          store = StoreOf(<<first, second>>)

\* both sinks for the runs with many ownerReferences and the runs with
\* failures, the tabular sink for the others
Init ==
    /\ \/ Output \in Outputs /\ (InitManyRefs \/ InitFailures)
       \/ Output = "" /\ (InitManyCandidates \/ InitTwoChildren \/ InitLowerKind)
    /\ InitRun

(***************************************************************************)
(* Run, step by step.                                                      *)
(***************************************************************************)
\* the "tolerate partial discovery" loop: one warning line per group/version
\* that was not recorded before, in the order the map is ranged over
DiscoveryWarnings(order) ==
    [i \in 1..Len(order) |-> <<"warning: could not discover resources in", order[i]>>]

\* a variant without the alreadyFailed test
NewlyFailedEveryTime(failed, recorded) == failed

\* the group/versions of a partial discovery failure that were not recorded
\* before: the alreadyFailed test
NewlyFailed(failed, recorded) == failed \ recorded

\* a variant that tolerates no discovery error at all
ReturnsErrorOnAnyFailure(outcome) == outcome.kind \in {"fatal", "partial"}

\* the test on the error of a discovery call: an ErrGroupDiscoveryFailed is
\* tolerated, any other error is returned
ReturnsError(outcome) == outcome.kind = "fatal"

\* restmapper.GetAPIGroupResources and the handling of its error
Discover1 ==
    /\ pc = "discover1"
    /\ calls' = Append(calls, <<"GetAPIGroupResources">>)
    /\ IF ReturnsError(disc1)
       THEN /\ pc' = "done"
            /\ returned' = "err"
            /\ UNCHANGED <<gvDiscoveryFailures, warningCount, stderr, allGroupResources>>
       ELSE \E order \in Orderings(NewlyFailed(disc1.failed, gvDiscoveryFailures)) :
            /\ gvDiscoveryFailures' = gvDiscoveryFailures \cup disc1.failed
            /\ warningCount' = warningCount + Len(order)
            /\ stderr' = stderr \o DiscoveryWarnings(order)
            /\ allGroupResources' = GetAPIGroupResources(disc1.failed)
            /\ pc' = "discover2"
            /\ UNCHANGED returned
    /\ UNCHANGED checked
    /\ UNCHANGED <<Output, store, disc1, disc2, listFailAt, errorCount, gvrs,
                   grListErrors, byGVR, byUID, ti, cont, vi, vj, vk, initialized,
                   tabbuf, stdout, findings>>

\* first position (j, k) at or after (j, k) of an ownerReference among items;
\* (Len(items) + 1, 1) when there is none
RECURSIVE NextPos(_, _, _)
NextPos(items, j, k) ==
    IF j > Len(items) THEN [j |-> Len(items) + 1, k |-> 1]
    ELSE IF k <= Len(items[j].ownerReferences) THEN [j |-> j, k |-> k]
    ELSE NextPos(items, j + 1, 1)

\* discovery.ServerPreferredResources, the handling of its error, the filter
\* on the verbs, and the sorted list of resource types
Discover2 ==
    /\ pc = "discover2"
    /\ calls' = Append(calls, <<"ServerPreferredResources">>)
    /\ IF ReturnsError(disc2)
       THEN /\ pc' = "done"
            /\ returned' = "err"
            /\ UNCHANGED <<gvDiscoveryFailures, warningCount, stderr, gvrs>>
       ELSE \E order \in Orderings(NewlyFailed(disc2.failed, gvDiscoveryFailures)) :
            /\ gvDiscoveryFailures' = gvDiscoveryFailures \cup disc2.failed
            /\ warningCount' = warningCount + Len(order)
            /\ stderr' = stderr \o DiscoveryWarnings(order)
            /\ IF disc2.kind = "malformed"
               THEN /\ pc' = "done"
                    /\ returned' = "err"
                    /\ UNCHANGED gvrs
               ELSE /\ gvrs' = SortGVRs(GroupVersionResources(
                                   FilteredBy(ServerPreferredResources(disc2.failed))))
                    /\ pc' = IF Len(gvrs') = 0 THEN "summary" ELSE "list"
                    /\ UNCHANGED returned
    /\ UNCHANGED checked
    /\ UNCHANGED <<Output, store, disc1, disc2, listFailAt, errorCount,
                   allGroupResources, grListErrors, byGVR, byUID, ti, cont, vi, vj,
                   vk, initialized, tabbuf, stdout, findings>>

\* a variant that fills in apiVersion and kind whatever the item carries
BackfillAlways(item, gvk) ==
    IF gvk # EmptyGVK
    THEN [item EXCEPT !.apiVersion = GVString([group |-> gvk.group, version |-> gvk.version]),
                      !.kind = gvk.kind]
    ELSE item

\* the item callback of EachListItem: fill in apiVersion and kind
Backfill(item, gvk) ==
    IF item.apiVersion = <<>> /\ item.kind = "" /\ gvk # EmptyGVK
    THEN [item EXCEPT !.apiVersion = GVString([group |-> gvk.group, version |-> gvk.version]),
                      !.kind = gvk.kind]
    ELSE item

\* a variant that keeps one object per uid
RECURSIVE AppendByUIDOnce(_, _, _)
AppendByUIDOnce(index, items, i) ==
    IF i > Len(items) THEN index
    ELSE IF index[items[i].uid] # <<>> THEN AppendByUIDOnce(index, items, i + 1)
    ELSE AppendByUIDOnce([index EXCEPT ![items[i].uid] = Append(@, items[i])], items, i + 1)

\* byUID after the items i..Len(items) were appended to their buckets
RECURSIVE AppendByUID(_, _, _)
AppendByUID(index, items, i) ==
    IF i > Len(items) THEN index
    ELSE AppendByUID([index EXCEPT ![items[i].uid] = Append(@, items[i])], items, i + 1)

\* a variant in which a failed list ends the loop over gvrs
ListNextAbort(failed, more, last, i, n) ==
    IF failed THEN [pc |-> "validate", ti |-> i + 1, cont |-> 0]
    ELSE IF more THEN [pc |-> "list", ti |-> i, cont |-> last]
    ELSE IF i = n THEN [pc |-> "validate", ti |-> i + 1, cont |-> 0]
    ELSE [pc |-> "list", ti |-> i + 1, cont |-> 0]

\* a variant that starts the validation when the pages of a type end
ListNextValidateEarly(failed, more, last, i, n) ==
    IF more THEN [pc |-> "list", ti |-> i, cont |-> last]
    ELSE [pc |-> "validate", ti |-> i + 1, cont |-> 0]

\* where Run continues after a page of gvrs[i], i of n: the next page while
\* the list has a continue token, else the next resource type, else the
\* validation; a failed list only ends the pages of its type
ListNext(failed, more, last, i, n) ==
    IF more THEN [pc |-> "list", ti |-> i, cont |-> last]
    ELSE IF i = n THEN [pc |-> "validate", ti |-> i + 1, cont |-> 0]
    ELSE [pc |-> "list", ti |-> i + 1, cont |-> 0]

\* a variant that issues a delete of the collection
ListCallDeleting(gvr, continue) == <<"DeleteCollection", gvr, continue>>

\* the request of the page function: MetadataClient.Resource(gvr).List with
\* the continue token of the pager
ListCall(gvr, continue) == <<"List", gvr, continue>>

\* one call of the page function of the pager for gvrs[ti], and the item
\* callback for every item of the page it returned
ListPage ==
    /\ pc = "list"
    /\ calls' = Append(calls, ListCall(gvrs[ti], cont))
    /\ LET gvr == gvrs[ti]
           gr == GroupResource(gvr)
           gvk == KindFor(allGroupResources, gvr)
           all == store[gr]
           call == (cont \div PageSize) + 1
           failed == listFailAt[gr] = call
           last == Min(cont + PageSize, Len(all))
           page == [i \in 1..(last - cont) |-> Backfill(all[cont + i], gvk)]
           more == ~failed /\ last < Len(all)
       IN /\ IF failed
             THEN /\ warningCount' = warningCount + 1
                  /\ stderr' = Append(stderr, <<"warning: could not list", gvr>>)
                  /\ grListErrors' = grListErrors \cup {gr}
                  /\ UNCHANGED <<byGVR, byUID>>
             ELSE /\ byUID' = AppendByUID(byUID, page, 1)
                  /\ byGVR' = [byGVR EXCEPT ![gvr] = @ \o page]
                  /\ UNCHANGED <<warningCount, stderr, grListErrors>>
          /\ LET next == ListNext(failed, more, last, ti, Len(gvrs))
             IN /\ pc' = next.pc
                /\ ti' = next.ti
                /\ cont' = next.cont
                /\ IF next.pc = "validate"
                   THEN /\ vi' = 1
                        /\ vj' = NextPos(byGVR'[gvrs[1]], 1, 1).j
                        /\ vk' = NextPos(byGVR'[gvrs[1]], 1, 1).k
                   ELSE UNCHANGED <<vi, vj, vk>>
    /\ UNCHANGED checked
    /\ UNCHANGED <<Output, store, disc1, disc2, listFailAt, returned, errorCount,
                   gvDiscoveryFailures, allGroupResources, gvrs, initialized,
                   tabbuf, stdout, findings>>

\* the row the tabular sink writes
TabRow(gvr, item, ownerRef, level, msg) ==
    <<gvr.group, gvr.resource, item.namespace, item.name, ownerRef.uid, level, msg>>

TabHeader == <<"GROUP", "RESOURCE", "NAMESPACE", "NAME", "OWNER_UID", "LEVEL", "MESSAGE">>

\* the record the json sink encodes
invalidReference(gvr, item, ownerRef, level, msg) ==
    [ resource |-> gvr,
      kind |-> [group |-> gvr.group, version |-> gvr.version, kind |-> item.kind],
      namespace |-> item.namespace, name |-> item.name,
      ownerReference |-> ownerRef, level |-> level, message |-> msg ]

\* a variant whose tabular sink counts only the errors
outputRefMessageErrorsOnly(gvr, item, ownerRef, level, msg) ==
    IF Output = ""
    THEN /\ errorCount' = IF level = levelError THEN errorCount + 1 ELSE errorCount
         /\ UNCHANGED warningCount
         /\ initialized' = TRUE
         /\ tabbuf' = (IF initialized THEN tabbuf ELSE Append(tabbuf, TabHeader))
                        \o << TabRow(gvr, item, ownerRef, level, msg) >>
         /\ UNCHANGED stdout
    ELSE /\ stdout' = Append(stdout, invalidReference(gvr, item, ownerRef, level, msg))
         /\ UNCHANGED <<errorCount, warningCount, initialized, tabbuf>>

\* outputRefMessage, for the sink selected by Output
outputRefMessage(gvr, item, ownerRef, level, msg) ==
    IF Output = ""
    THEN /\ errorCount' = IF level = levelError THEN errorCount + 1 ELSE errorCount
         /\ warningCount' = IF level = levelError THEN warningCount ELSE warningCount + 1
         /\ initialized' = TRUE
         /\ tabbuf' = (IF initialized THEN tabbuf ELSE Append(tabbuf, TabHeader))
                        \o << TabRow(gvr, item, ownerRef, level, msg) >>
         /\ UNCHANGED stdout
    ELSE /\ stdout' = Append(stdout, invalidReference(gvr, item, ownerRef, level, msg))
         /\ UNCHANGED <<errorCount, warningCount, initialized, tabbuf>>

\* a variant that leaves the loop over the ownerReferences of the child at
\* the first finding
NextOwnerRefBreak(items, j, k, f) ==
    IF f = NoFinding THEN NextPos(items, j, k + 1) ELSE NextPos(items, j + 1, 1)

\* where the loops continue after the ownerReference k of child j was
\* handled with result f: every branch ends in "continue"
NextOwnerRef(items, j, k, f) == NextPos(items, j, k + 1)

\* one iteration of the loop over child.OwnerReferences
CheckOwnerRef ==
    /\ pc = "validate"
    /\ vi <= Len(gvrs)
    /\ vj <= Len(byGVR[gvrs[vi]])
    /\ LET gvr == gvrs[vi]
           child == byGVR[gvr][vj]
           ownerRef == child.ownerReferences[vk]
           f == CheckRef(allGroupResources, gvDiscoveryFailures, grListErrors,
                         byUID, child, ownerRef)
           next == NextOwnerRef(byGVR[gvr], vj, vk, f)
       IN /\ IF f = NoFinding
             THEN UNCHANGED <<errorCount, warningCount, initialized, tabbuf, stdout,
                              findings>>
             ELSE /\ outputRefMessage(gvr, child, ownerRef, f.level, f.msg)
                  /\ findings' = Append(findings,
                        [vi |-> vi, vj |-> vj, vk |-> vk, gvr |-> gvr, child |-> child,
                         ownerRef |-> ownerRef, level |-> f.level, msg |-> f.msg])
          /\ vj' = next.j
          /\ vk' = next.k
    /\ checked' = Append(checked, <<vi, vj, vk>>)
    /\ UNCHANGED <<Output, store, disc1, disc2, listFailAt, pc, returned,
                   gvDiscoveryFailures, allGroupResources, gvrs, grListErrors, byGVR,
                   byUID, ti, cont, vi, stderr, calls>>

\* the end of one iteration of the loop over gvrs: flush the tabwriter
NextType ==
    /\ pc = "validate"
    /\ vi <= Len(gvrs)
    /\ vj > Len(byGVR[gvrs[vi]])
    /\ stdout' = stdout \o tabbuf
    /\ tabbuf' = <<>>
    /\ vi' = vi + 1
    /\ IF vi < Len(gvrs)
       THEN /\ vj' = NextPos(byGVR[gvrs[vi + 1]], 1, 1).j
            /\ vk' = NextPos(byGVR[gvrs[vi + 1]], 1, 1).k
            /\ UNCHANGED pc
       ELSE /\ vj' = 1 /\ vk' = 1
            /\ pc' = "summary"
    /\ UNCHANGED checked
    /\ UNCHANGED <<Output, store, disc1, disc2, listFailAt, returned, errorCount,
                   warningCount, gvDiscoveryFailures, allGroupResources, gvrs,
                   grListErrors, byGVR, byUID, ti, cont, initialized, stderr, findings,
                   calls>>

\* the summary line and the return
Summarize ==
    /\ pc = "summary"
    /\ stderr' = Append(stderr,
          IF errorCount > 0 \/ warningCount > 0
          THEN <<pluralize(errorCount, "error", "errors"),
                 pluralize(warningCount, "warning", "warnings")>>
          ELSE <<"No invalid ownerReferences found">>)
    /\ returned' = "nil"
    /\ pc' = "done"
    /\ UNCHANGED checked
    /\ UNCHANGED <<Output, store, disc1, disc2, listFailAt, errorCount, warningCount,
                   gvDiscoveryFailures, allGroupResources, gvrs, grListErrors, byGVR,
                   byUID, ti, cont, vi, vj, vk, initialized, tabbuf, stdout, findings,
                   calls>>

Next ==
    \/ Discover1
    \/ Discover2
    \/ ListPage
    \/ CheckOwnerRef
    \/ NextType
    \/ Summarize

Spec == Init /\ [][Next]_vars

(***************************************************************************)
(* Vocabulary of the properties: the ownerReferences of the indexed        *)
(* objects, by position, and the checks of one ownerReference stated one   *)
(* by one.                                                                 *)
(***************************************************************************)
\* positions <<type, child, ownerReference>> of the indexed ownerReferences
Positions ==
    UNION { UNION { { <<i, j, k>> : k \in 1..Len(byGVR[gvrs[i]][j].ownerReferences) } :
                    j \in 1..Len(byGVR[gvrs[i]]) } :
            i \in 1..Len(gvrs) }

ChildAt(p) == byGVR[gvrs[p[1]]][p[2]]
RefAt(p) == ChildAt(p).ownerReferences[p[3]]

\* the findings emitted for the ownerReference at position p
FindingsAt(p) ==
    { n \in DOMAIN findings : <<findings[n].vi, findings[n].vj, findings[n].vk>> = p }

RefGV(ref) == ParseGroupVersion(ref.apiVersion).gv
RefMapping(ref) == RESTMapping(allGroupResources, RefGV(ref).group, ref.kind, RefGV(ref).version)

ParseFires(ref) == ~ParseGroupVersion(ref.apiVersion).ok
ResolveFires(ref) == ~RefMapping(ref).ok
ScopeFires(child, ref) == RefMapping(ref).namespaced /\ child.namespace = ""
ExistenceFires(ref) == Len(byUID[ref.uid]) = 0

Bucket(ref) == { byUID[ref.uid][n] : n \in DOMAIN byUID[ref.uid] }

NameAspect(ref) == \E c \in Bucket(ref) : c.name = ref.name
NamespaceAspect(child, ref) ==
    \E c \in Bucket(ref) : c.namespace = "" \/ c.namespace = child.namespace
GroupKindAspect(ref) ==
    \E c \in Bucket(ref) :
        \/ c.apiVersion = <<>> \/ c.kind = ""
        \/ /\ ParseGroupVersion(c.apiVersion).gv.group = RefGV(ref).group
           /\ (c.kind = ref.kind \/ ToLower(c.kind) = ref.kind)

CrossFires(child, ref) ==
    ~NamespaceAspect(child, ref) \/ ~NameAspect(ref) \/ ~GroupKindAspect(ref)

\* the first check that fires, in the order of the checks
FirstFiring(child, ref) ==
    IF ParseFires(ref) THEN "parse"
    ELSE IF ResolveFires(ref) THEN "resolve"
    ELSE IF ScopeFires(child, ref) THEN "scope"
    ELSE IF ExistenceFires(ref) THEN "existence"
    ELSE IF CrossFires(child, ref) THEN "cross"
    ELSE "none"

\* the check a message belongs to
StageOf(msg) ==
    CASE msg[1] = "invalid owner apiVersion" -> "parse"
      [] msg[1] \in { "failed resolving resources for",
                      "cannot resolve owner apiVersion/kind" } -> "resolve"
      [] msg[1] = "cannot reference namespaced type as owner" -> "scope"
      [] msg[1] \in { "could not list parent resource", "no object found for uid" }
            -> "existence"
      [] OTHER -> "cross"

(***************************************************************************)
(* C1: an ownerReference that parses, resolves, passes the scope check and *)
(* whose UID bucket holds a candidate with the same name, a namespace that *)
(* is empty or the child's, and the same group and kind, gets no finding.  *)
(***************************************************************************)
HasMatchingOwner(child, ref) ==
    \E c \in Bucket(ref) :
        /\ c.name = ref.name
        /\ (c.namespace = "" \/ c.namespace = child.namespace)
        /\ ParseGroupVersion(c.apiVersion).gv.group = RefGV(ref).group
        /\ c.kind = ref.kind

ValidOwnerRef(child, ref) ==
    /\ ~ParseFires(ref)
    /\ ~ResolveFires(ref)
    /\ ~ScopeFires(child, ref)
    /\ HasMatchingOwner(child, ref)

C1_NoFindingForValidRef ==
    returned = "nil" =>
        \A p \in Positions : ValidOwnerRef(ChildAt(p), RefAt(p)) => FindingsAt(p) = {}

\* a finished run that checked a valid ownerReference whose bucket also
\* holds a candidate that does not match
C1_Witness ==
    /\ returned = "nil"
    /\ \E p \in Positions :
          /\ ValidOwnerRef(ChildAt(p), RefAt(p))
          /\ Cardinality(Bucket(RefAt(p))) > 1

(***************************************************************************)
(* C2: at most one finding per ownerReference, the one of the first check  *)
(* that fires in the order parse, resolve, scope, existence, cross-check;  *)
(* a finding does not stop the checks of the following ownerReferences of  *)
(* the same object or of later objects.                                    *)
(***************************************************************************)
C2_OneFindingOfFirstCheck ==
    /\ \A m, n \in DOMAIN findings :
          m # n => <<findings[m].vi, findings[m].vj, findings[m].vk>>
                     # <<findings[n].vi, findings[n].vj, findings[n].vk>>
    /\ \A n \in DOMAIN findings :
          StageOf(findings[n].msg) = FirstFiring(findings[n].child, findings[n].ownerRef)
    /\ returned = "nil" =>
          \A p \in Positions :
              FirstFiring(ChildAt(p), RefAt(p)) # "none" => FindingsAt(p) # {}

\* a finished run with findings for two ownerReferences of the same object
C2_Witness ==
    /\ returned = "nil"
    /\ Len(findings) >= 2
    /\ findings[1].vi = findings[2].vi
    /\ findings[1].vj = findings[2].vj

\* the finding for the ownerReference at position p is exactly f
OnlyFinding(p, f) ==
    /\ Cardinality(FindingsAt(p)) = 1
    /\ \A n \in FindingsAt(p) : findings[n].level = f.level /\ findings[n].msg = f.msg

NumFindings(level) == Cardinality({ n \in DOMAIN findings : findings[n].level = level })

\* the list calls that failed
FailedLists ==
    { n \in DOMAIN calls :
        /\ calls[n][1] = "List"
        /\ listFailAt[GroupResource(calls[n][2])] = (calls[n][3] \div PageSize) + 1 }

ListFailed(gvr) == \E n \in FailedLists : calls[n][2] = gvr

(***************************************************************************)
(* C3 as stated: at the end of every run the error counter is the number   *)
(* of Error findings and the warning counter the number of Warning         *)
(* findings, nothing else changes a counter.                               *)
(***************************************************************************)
C3_CountersEqualFindings ==
    returned = "nil" =>
        /\ errorCount = NumFindings(levelError)
        /\ warningCount = NumFindings(levelWarning)

(***************************************************************************)
(* C3 as amended: the error counter is the number of Error findings        *)
(* written by the tabular sink; the warning counter is the number of       *)
(* Warning findings written by the tabular sink plus the number of         *)
(* group/versions recorded as discovery failures plus the number of list   *)
(* calls that failed; findings written by the json sink change no counter. *)
(***************************************************************************)
C3_CountersEqualTabularFindingsAndFailures ==
    /\ errorCount = IF Output = "" THEN NumFindings(levelError) ELSE 0
    /\ warningCount = (IF Output = "" THEN NumFindings(levelWarning) ELSE 0)
                        + Cardinality(gvDiscoveryFailures)
                        + Cardinality(FailedLists)

\* a finished tabular run with a Warning finding, a failed list and a
\* discovery failure
C3_Witness ==
    /\ returned = "nil"
    /\ Output = ""
    /\ NumFindings(levelWarning) > 0
    /\ FailedLists # {}
    /\ gvDiscoveryFailures # {}

(***************************************************************************)
(* C4: whichever sink is selected, every Error finding increments the      *)
(* error counter and every Warning finding increments the warning counter. *)
(***************************************************************************)
C4_EveryFindingIsCounted ==
    [][ Len(findings') = Len(findings) + 1 =>
          LET f == findings'[Len(findings')]
          IN /\ f.level = levelError =>
                  errorCount' = errorCount + 1 /\ warningCount' = warningCount
             /\ f.level = levelWarning =>
                  warningCount' = warningCount + 1 /\ errorCount' = errorCount ]_vars

(***************************************************************************)
(* C5: a list error never aborts the scan: every resource type of the      *)
(* sorted catalog is listed whatever failed before, the type that failed   *)
(* is recorded in grListErrors, the objects of every other type are        *)
(* indexed, every indexed ownerReference is checked and the run ends with  *)
(* the summary line.                                                       *)
(***************************************************************************)
C5_ListFailureDoesNotAbort ==
    /\ FailedLists # {} => returned # "err"
    /\ pc = "list" =>
          /\ ti \in 1..Len(gvrs)
          /\ cont <= Len(store[GroupResource(gvrs[ti])])
    /\ pc = "summary" \/ returned = "nil" =>
          \A i \in 1..Len(gvrs) :
              LET gvr == gvrs[i]
                  gr == GroupResource(gvr)
              IN /\ \E n \in DOMAIN calls : calls[n] = <<"List", gvr, 0>>
                 /\ ListFailed(gvr) => gr \in grListErrors
                 /\ ~ListFailed(gvr) =>
                       byGVR[gvr] = [j \in 1..Len(store[gr]) |->
                                        Backfill(store[gr][j], KindFor(allGroupResources, gvr))]
    /\ returned = "nil" =>
          /\ { checked[n] : n \in DOMAIN checked } = Positions
          /\ Len(stderr) > 0
          /\ stderr[Len(stderr)] \in
                { <<"No invalid ownerReferences found">>,
                  <<pluralize(errorCount, "error", "errors"),
                    pluralize(warningCount, "warning", "warnings")>> }

\* a finished run in which two types failed to list and an ownerReference
\* of an object of another type was checked
C5_Witness ==
    /\ returned = "nil"
    /\ Cardinality(grListErrors) = 2
    /\ Len(checked) > 0

(***************************************************************************)
(* C6: for an ownerReference that passes the parse, resolve and scope      *)
(* checks and whose UID bucket is empty, the finding is the Warning "could *)
(* not list parent resource" exactly when grListErrors has the             *)
(* GroupResource the owner resolves to, else the Error "no object found    *)
(* for uid"; grListErrors is consulted only when the bucket is empty.      *)
(***************************************************************************)
C6_EmptyBucketFinding ==
    /\ returned = "nil" =>
          \A p \in Positions :
              LET child == ChildAt(p)
                  ref == RefAt(p)
                  ownerGR == GroupResource(RefMapping(ref).resource)
              IN /\ ~ParseFires(ref) /\ ~ResolveFires(ref)
                 /\ ~ScopeFires(child, ref) /\ ExistenceFires(ref)
                 => OnlyFinding(p,
                       IF ownerGR \in grListErrors
                       THEN [level |-> levelWarning,
                             msg |-> <<"could not list parent resource", ownerGR>>]
                       ELSE [level |-> levelError, msg |-> <<"no object found for uid">>])
    /\ \A n \in DOMAIN findings :
          StageOf(findings[n].msg) = "existence" => ExistenceFires(findings[n].ownerRef)

\* a finished run with the Warning for an owner whose uid has no object and
\* whose type failed to list
C6_Witness ==
    /\ returned = "nil"
    /\ \E n \in DOMAIN findings :
          /\ findings[n].level = levelWarning
          /\ findings[n].msg[1] = "could not list parent resource"

(***************************************************************************)
(* C7: when the apiVersion parses and the mapping fails, the finding is    *)
(* the Warning "failed resolving resources for" exactly when that          *)
(* group/version is a recorded discovery failure, else the Error "cannot   *)
(* resolve owner apiVersion/kind"; no other finding is made for it.        *)
(***************************************************************************)
C7_UnresolvedOwnerFinding ==
    returned = "nil" =>
        \A p \in Positions :
            LET ref == RefAt(p)
            IN ~ParseFires(ref) /\ ResolveFires(ref)
               => OnlyFinding(p,
                     IF RefGV(ref) \in gvDiscoveryFailures
                     THEN [level |-> levelWarning,
                           msg |-> <<"failed resolving resources for", ref.apiVersion>>]
                     ELSE [level |-> levelError,
                           msg |-> <<"cannot resolve owner apiVersion/kind",
                                     RefGV(ref), ref.kind>>])

\* a finished run with the Warning for an owner in a group/version that
\* failed discovery
C7_Witness ==
    /\ returned = "nil"
    /\ \E n \in DOMAIN findings :
          /\ findings[n].level = levelWarning
          /\ findings[n].msg[1] = "failed resolving resources for"

(***************************************************************************)
(* C8: a child with an empty namespace that names an owner of a            *)
(* namespaced type gets exactly one Error "cannot reference namespaced     *)
(* type as owner", whether or not an object has the uid and whether or not *)
(* the owner's type failed to list.                                        *)
(***************************************************************************)
C8_ScopeFinding ==
    returned = "nil" =>
        \A p \in Positions :
            LET child == ChildAt(p)
                ref == RefAt(p)
            IN /\ ~ParseFires(ref) /\ ~ResolveFires(ref)
               /\ RefMapping(ref).namespaced /\ child.namespace = ""
               => OnlyFinding(p,
                     [level |-> levelError,
                      msg |-> <<"cannot reference namespaced type as owner",
                                GVString(RefGV(ref)), ref.kind>>])

\* a finished run with that Error for an owner whose uid has no object and
\* whose type failed to list
C8_Witness ==
    /\ returned = "nil"
    /\ \E n \in DOMAIN findings :
          /\ findings[n].msg[1] = "cannot reference namespaced type as owner"
          /\ ExistenceFires(findings[n].ownerRef)
          /\ GroupResource(RefMapping(findings[n].ownerRef).resource) \in grListErrors

(***************************************************************************)
(* C9 as stated: with a non-empty bucket the ownerReference passes exactly *)
(* when each aspect is satisfied by some candidate: name; namespace empty  *)
(* or the child's; apiVersion/kind empty, or group equal to the            *)
(* reference's group and kind equal to the reference's kind.               *)
(***************************************************************************)
ReachesCrossCheck(child, ref) ==
    /\ ~ParseFires(ref) /\ ~ResolveFires(ref)
    /\ ~ScopeFires(child, ref) /\ ~ExistenceFires(ref)

SameKindAspect(ref) ==
    \E c \in Bucket(ref) :
        \/ c.apiVersion = <<>> \/ c.kind = ""
        \/ /\ ParseGroupVersion(c.apiVersion).gv.group = RefGV(ref).group
           /\ c.kind = ref.kind

C9_PassesIffAspectsWithSameKind ==
    returned = "nil" =>
        \A p \in Positions :
            ReachesCrossCheck(ChildAt(p), RefAt(p)) =>
                ( FindingsAt(p) = {}
                  <=> /\ NameAspect(RefAt(p))
                      /\ NamespaceAspect(ChildAt(p), RefAt(p))
                      /\ SameKindAspect(RefAt(p)) )

(***************************************************************************)
(* C9 as amended: the same, where the group/kind aspect is also satisfied  *)
(* by a candidate of the reference's group whose kind, lower-cased, equals *)
(* the reference's kind.                                                   *)
(***************************************************************************)
C9_PassesIffAspects ==
    returned = "nil" =>
        \A p \in Positions :
            ReachesCrossCheck(ChildAt(p), RefAt(p)) =>
                ( FindingsAt(p) = {}
                  <=> /\ NameAspect(RefAt(p))
                      /\ NamespaceAspect(ChildAt(p), RefAt(p))
                      /\ GroupKindAspect(RefAt(p)) )

\* a finished run in which an ownerReference passed although no candidate
\* of its bucket satisfies the three aspects together
C9_Witness ==
    /\ returned = "nil"
    /\ \E p \in Positions :
          /\ ReachesCrossCheck(ChildAt(p), RefAt(p))
          /\ FindingsAt(p) = {}
          /\ ~\E c \in Bucket(RefAt(p)) :
                /\ c.name = RefAt(p).name
                /\ (c.namespace = "" \/ c.namespace = ChildAt(p).namespace)
                /\ \/ c.apiVersion = <<>> \/ c.kind = ""
                   \/ /\ ParseGroupVersion(c.apiVersion).gv.group = RefGV(RefAt(p)).group
                      /\ (c.kind = RefAt(p).kind \/ ToLower(c.kind) = RefAt(p).kind)

(***************************************************************************)
(* C10: when aspects of the cross-check fail, exactly one Error is         *)
(* emitted: the namespace mismatch if no candidate satisfies the namespace *)
(* aspect, else the name mismatch if none satisfies the name aspect, else  *)
(* the group/kind mismatch if none satisfies the group/kind aspect.        *)
(***************************************************************************)
OnlyErrorNamed(p, text) ==
    /\ Cardinality(FindingsAt(p)) = 1
    /\ \A n \in FindingsAt(p) : findings[n].level = levelError /\ findings[n].msg[1] = text

C10_CrossCheckPrecedence ==
    returned = "nil" =>
        \A p \in Positions :
            LET child == ChildAt(p)
                ref == RefAt(p)
            IN ReachesCrossCheck(child, ref) =>
                 /\ ~NamespaceAspect(child, ref)
                       => OnlyErrorNamed(p, "child namespace does not match owner namespace")
                 /\ NamespaceAspect(child, ref) /\ ~NameAspect(ref)
                       => OnlyErrorNamed(p, "ownerReference name does not match owner name")
                 /\ NamespaceAspect(child, ref) /\ NameAspect(ref) /\ ~GroupKindAspect(ref)
                       => OnlyErrorNamed(p,
                             "ownerReference group/kind does not match owner group/kind")

\* a finished run with a namespace mismatch for an ownerReference whose name
\* and group/kind no candidate satisfies either
C10_Witness ==
    /\ returned = "nil"
    /\ \E p \in Positions :
          /\ ReachesCrossCheck(ChildAt(p), RefAt(p))
          /\ ~NamespaceAspect(ChildAt(p), RefAt(p))
          /\ ~NameAspect(RefAt(p))
          /\ ~GroupKindAspect(RefAt(p))

IsPrefix(a, b) == Len(a) <= Len(b) /\ \A n \in 1..Len(a) : a[n] = b[n]

\* <<a1, a2, a3>> before <<b1, b2, b3>>, component by component
Before3(a, b, lt(_, _)) ==
    \/ lt(a[1], b[1])
    \/ a[1] = b[1] /\ lt(a[2], b[2])
    \/ a[1] = b[1] /\ a[2] = b[2] /\ lt(a[3], b[3])

IntLess(a, b) == a < b

\* the index of a resource type in the catalog
CatalogIndex(gvr) == CHOOSE i \in 1..Len(gvrs) : gvrs[i] = gvr

\* what the selected sink was handed so far, in order
Emitted == stdout \o tabbuf

C11_Ordered ==
    /\ \A i, j \in 1..Len(gvrs) :
          i < j => Before3(<<gvrs[i].group, gvrs[i].version, gvrs[i].resource>>,
                           <<gvrs[j].group, gvrs[j].version, gvrs[j].resource>>, StrLess)
    /\ \A m \in 1..(Len(calls) - 1) :
          LET n == m + 1
          IN calls[m][1] = "List" /\ calls[n][1] = "List"
             => \/ CatalogIndex(calls[m][2]) < CatalogIndex(calls[n][2])
                \/ calls[m][2] = calls[n][2] /\ calls[m][3] < calls[n][3]
    /\ \A m \in 1..(Len(checked) - 1) : Before3(checked[m], checked[m + 1], IntLess)
    /\ \A m \in 1..(Len(findings) - 1) :
          LET n == m + 1
          IN Before3(<<findings[m].vi, findings[m].vj, findings[m].vk>>,
                     <<findings[n].vi, findings[n].vj, findings[n].vk>>, IntLess)
    /\ \A n \in DOMAIN findings :
          /\ findings[n].gvr = gvrs[findings[n].vi]
          /\ findings[n].child = byGVR[findings[n].gvr][findings[n].vj]
          /\ findings[n].ownerRef = findings[n].child.ownerReferences[findings[n].vk]

C11_Extended ==
    /\ IsPrefix(findings, findings')
    /\ IsPrefix(Emitted, Emitted')
    /\ Len(Emitted') - Len(Emitted) \in
          { Len(findings') - Len(findings),
            Len(findings') - Len(findings) + (IF initialized' /\ ~initialized THEN 1 ELSE 0) }

SetupFails ==
    \/ disc1.kind = "fatal"
    \/ disc2.kind \in {"fatal", "malformed"}

SummaryLines ==
    { <<"No invalid ownerReferences found">>,
      <<pluralize(errorCount, "error", "errors"),
        pluralize(warningCount, "warning", "warnings")>> }

\* Run has a next step to take
CanStep ==
    CASE pc = "discover1" -> TRUE
      [] pc = "discover2" -> TRUE
      [] pc = "list" -> ti \in 1..Len(gvrs)
      [] pc = "validate" ->
            /\ vi \in 1..Len(gvrs)
            /\ vj <= Len(byGVR[gvrs[vi]]) =>
                  vk \in 1..Len(byGVR[gvrs[vi]][vj].ownerReferences)
      [] pc = "summary" -> TRUE
      [] OTHER -> FALSE

(***************************************************************************)
(* C12: Run returns an error only when a discovery call fails with an      *)
(* error that is not a partial discovery failure, or the discovered        *)
(* resources cannot be converted, and then before any list call, finding   *)
(* or summary line; in every other case, whatever failed partially and     *)
(* whatever was found, Run goes on to the summary line and returns nil.    *)
(***************************************************************************)
C12_ErrorOnlyFromDiscovery ==
    /\ returned = "err" =>
          /\ SetupFails
          /\ \A n \in DOMAIN calls : calls[n][1] # "List"
          /\ findings = <<>> /\ checked = <<>> /\ Emitted = <<>>
          /\ \A n \in DOMAIN stderr : stderr[n][1] = "warning: could not discover resources in"
    /\ returned = "nil" =>
          /\ ~SetupFails
          /\ Len(stderr) > 0 /\ stderr[Len(stderr)] \in SummaryLines
    /\ returned = "none" => CanStep
    /\ ~SetupFails /\ pc = "done" => returned = "nil"
    /\ SetupFails => pc \in {"discover1", "discover2", "done"} /\ returned # "nil"

\* a run that returned nil after a partial discovery failure, a list
\* failure and a finding
C12_Witness ==
    /\ returned = "nil"
    /\ gvDiscoveryFailures # {}
    /\ grListErrors # {}
    /\ findings # <<>>

(***************************************************************************)
(* C13: at the end of a tabular run the warning counter is the number of   *)
(* distinct group/versions whose discovery failed (one that both discovery *)
(* calls reported counts once) plus the number of resource types whose     *)
(* listing failed plus the number of Warning findings.                     *)
(***************************************************************************)
C13_WarningCountOfTabularRun ==
    returned = "nil" /\ Output = "" =>
        /\ gvDiscoveryFailures = disc1.failed \cup disc2.failed
        /\ grListErrors = { GroupResource(gvrs[i]) : i \in { j \in 1..Len(gvrs) : ListFailed(gvrs[j]) } }
        /\ warningCount = Cardinality(disc1.failed \cup disc2.failed)
                            + Cardinality({ i \in 1..Len(gvrs) : ListFailed(gvrs[i]) })
                            + NumFindings(levelWarning)

\* a finished tabular run in which both discovery calls reported the same
\* group/version, one listing failed and one Warning finding was emitted
C13_Witness ==
    /\ returned = "nil" /\ Output = ""
    /\ disc1.failed \cap disc2.failed # {}
    /\ Cardinality(grListErrors) = 1
    /\ NumFindings(levelWarning) = 1
    /\ errorCount = 0

\* the operations that read from the server
ReadOperations == {"GetAPIGroupResources", "ServerPreferredResources", "List"}

C14_OnlyReads == \A n \in DOMAIN calls : calls[n][1] \in ReadOperations

C14_StoreKept ==
    /\ store' = store
    /\ IsPrefix(calls, calls')
    /\ Len(calls') <= Len(calls) + 1

(***************************************************************************)
(* C14: the only operations Run issues to its collaborators are discovery  *)
(* calls and list calls; the objects of the store and each of their fields *)
(* are unchanged by every step of a run, whatever it finds.                *)
(***************************************************************************)
C14_ReadOnly == [] C14_OnlyReads /\ [][C14_StoreKept]_vars

\* a finished run with a finding, in which an object was indexed with the
\* apiVersion and kind filled in while the stored object has none
C14_Witness ==
    /\ returned = "nil"
    /\ findings # <<>>
    /\ \E i \in 1..Len(gvrs) : \E j \in 1..Len(byGVR[gvrs[i]]) :
          /\ j <= Len(store[GroupResource(gvrs[i])])
          /\ store[GroupResource(gvrs[i])][j].kind = ""
          /\ byGVR[gvrs[i]][j].kind # ""

\* the validation has started
Validating == pc \in {"validate", "summary"} \/ checked # <<>> \/ findings # <<>>

\* the objects with uid u in the list of type i of the catalog
IndexedWithUID(i, u) == { j \in 1..Len(byGVR[gvrs[i]]) : byGVR[gvrs[i]][j].uid = u }

C15_IndexComplete ==
    /\ Validating =>
          /\ pc \notin {"discover1", "discover2", "list"}
          /\ \A i \in 1..Len(gvrs) :
                /\ \E n \in DOMAIN calls : calls[n] = <<"List", gvrs[i], 0>>
                /\ ~ListFailed(gvrs[i]) =>
                      Len(byGVR[gvrs[i]]) = Len(store[GroupResource(gvrs[i])])
    /\ \A n \in DOMAIN findings :
          findings[n].msg = <<"no object found for uid">> =>
              \A i \in 1..Len(gvrs) :
                  ~ListFailed(gvrs[i]) =>
                      \A j \in 1..Len(store[GroupResource(gvrs[i])]) :
                          store[GroupResource(gvrs[i])][j].uid # findings[n].ownerRef.uid

C15_IndexFrozen ==
    Validating => byGVR' = byGVR /\ byUID' = byUID /\ grListErrors' = grListErrors
                  /\ gvrs' = gvrs /\ Len(calls') = Len(calls)

(***************************************************************************)
(* C15: no ownerReference is validated before every resource type of the   *)
(* catalog was listed; from the first validation step on the index is      *)
(* complete and does not change, so an ownerReference to an object of a    *)
(* type later in the catalog than the child's is checked against that      *)
(* object and is not reported as "no object found for uid".                *)
(***************************************************************************)
C15_ValidationAfterListing == [] C15_IndexComplete /\ [][C15_IndexFrozen]_vars

\* a finished run in which an ownerReference passed whose owner is of a
\* type later in the catalog than the child's, and of no earlier one
C15_Witness ==
    /\ returned = "nil"
    /\ \E p \in Positions :
          /\ FindingsAt(p) = {}
          /\ \E i \in (p[1] + 1)..Len(gvrs) : IndexedWithUID(i, RefAt(p).uid) # {}
          /\ \A i \in 1..p[1] : IndexedWithUID(i, RefAt(p).uid) = {}

RECURSIVE SumOver(_, _)
SumOver(f, S) ==
    IF S = {} THEN 0
    ELSE LET x == CHOOSE y \in S : TRUE IN f[x] + SumOver(f, S \ {x})

\* the number of objects in the UID buckets
BucketTotal == SumOver([u \in DOMAIN byUID |-> Len(byUID[u])], DOMAIN byUID)

\* the number of objects in the per-type lists of the types in T
ListTotal(T) == SumOver([g \in T |-> Len(byGVR[g])], T)

(***************************************************************************)
(* C16: once a list call for a resource type has failed, on whichever page *)
(* of the listing, the index holds no object of that type, in its own list *)
(* or in a UID bucket, and its GroupResource is in grListErrors.           *)
(***************************************************************************)
C16_FailedTypeHasNoObjects ==
    \A i \in 1..Len(gvrs) :
        ListFailed(gvrs[i]) =>
            /\ GroupResource(gvrs[i]) \in grListErrors
            /\ byGVR[gvrs[i]] = <<>>
            /\ BucketTotal = ListTotal({ gvrs[j] : j \in { k \in 1..Len(gvrs) : ~ListFailed(gvrs[k]) } })

\* the objects with uid u in the lists of the types i.. of the catalog, in
\* the order of the catalog and then of the list
RECURSIVE WithUIDFrom(_, _)
WithUIDFrom(u, i) ==
    IF i > Len(gvrs) THEN <<>>
    ELSE SelectSeq(byGVR[gvrs[i]], LAMBDA o : o.uid = u) \o WithUIDFrom(u, i + 1)

(***************************************************************************)
(* C17: every fetched object is once in the list of the type it was listed *)
(* under, in fetch order, and once in the bucket of its own UID; buckets   *)
(* are not deduplicated, so the lists and the buckets hold the same number *)
(* of objects, and the objects that share a UID are in one bucket in the   *)
(* order of the catalog and then of the fetch.                             *)
(***************************************************************************)
C17_ListsAndBucketsAgree ==
    (pc \in {"list", "validate", "summary"} /\ checked = <<>>) \/ returned = "nil" =>
        /\ \A u \in DOMAIN byUID : byUID[u] = WithUIDFrom(u, 1)
        /\ BucketTotal = ListTotal(DOMAIN byGVR)
        /\ \A g \in DOMAIN byGVR :
              /\ byGVR[g] # <<>> => \E i \in 1..Len(gvrs) : gvrs[i] = g
              /\ Len(byGVR[g]) <= Len(store[GroupResource(g)])
              /\ \A j \in 1..Len(byGVR[g]) :
                    byGVR[g][j] = Backfill(store[GroupResource(g)][j],
                                           KindFor(allGroupResources, g))

\* a finished run in which one bucket holds two objects of two resource
\* types
C17_Witness ==
    /\ returned = "nil"
    /\ \E u \in DOMAIN byUID :
          /\ Len(byUID[u]) = 2
          /\ \E i, j \in 1..Len(gvrs) :
                i < j /\ IndexedWithUID(i, u) # {} /\ IndexedWithUID(j, u) # {}

\* the candidate c is of the group of the ownerReference
SameGroup(c, ref) == ParseGroupVersion(c.apiVersion).gv.group = RefGV(ref).group

Typed(c) == c.apiVersion # <<>> /\ c.kind # ""

GroupKindFindingAt(p) ==
    \E n \in FindingsAt(p) :
        findings[n].msg[1] = "ownerReference group/kind does not match owner group/kind"

(***************************************************************************)
(* C18: the kind comparison of the group/kind aspect is asymmetric: with   *)
(* equal groups a candidate whose kind lower-cased is the kind of the      *)
(* ownerReference satisfies the aspect, a candidate whose kind is the kind *)
(* of the ownerReference lower-cased does not, and a candidate of another  *)
(* group never does whatever its kind.                                     *)
(***************************************************************************)
C18_LowerCaseOnCandidateSideOnly ==
    returned = "nil" =>
        \A p \in Positions :
            LET child == ChildAt(p)
                ref == RefAt(p)
            IN /\ ReachesCrossCheck(child, ref)
               /\ NameAspect(ref) /\ NamespaceAspect(child, ref)
               => /\ (\E c \in Bucket(ref) : SameGroup(c, ref) /\ ToLower(c.kind) = ref.kind)
                        => FindingsAt(p) = {}
                  /\ (\A c \in Bucket(ref) :
                         /\ Typed(c)
                         /\ \/ ~SameGroup(c, ref)
                            \/ c.kind # ref.kind /\ ToLower(c.kind) # ref.kind)
                        => GroupKindFindingAt(p)

\* a finished run with a group/kind mismatch for an ownerReference of kind
\* Node whose only candidate is of the same group and of kind node
C18_Witness ==
    /\ returned = "nil"
    /\ \E p \in Positions :
          /\ GroupKindFindingAt(p)
          /\ \A c \in Bucket(RefAt(p)) :
                /\ SameGroup(c, RefAt(p))
                /\ c.kind # RefAt(p).kind
                /\ c.kind = ToLower(RefAt(p).kind)

\* the resource of the server that the type g of the catalog names
ResourceOf(g) == CHOOSE r \in ServerResources : GVROf(r) = g

\* the indexed objects with the stored objects they were fetched from
Indexed == UNION { { <<g, j>> : j \in 1..Len(byGVR[g]) } : g \in DOMAIN byGVR }
StoredAt(x) == store[GroupResource(x[1])][x[2]]
IndexedAt(x) == byGVR[x[1]][x[2]]

Untyped(o) == o.apiVersion = <<>> /\ o.kind = ""

\* the indexes are only extended
IndexKept ==
    /\ \A g \in DOMAIN byGVR : IsPrefix(byGVR[g], byGVR'[g])
    /\ \A u \in DOMAIN byUID : IsPrefix(byUID[u], byUID'[u])

(***************************************************************************)
(* C19 as stated: every fetched object whose apiVersion and kind are empty *)
(* is indexed with the group/version and the kind of the resource type it  *)
(* was listed under; an object that carries an apiVersion and kind is      *)
(* indexed with them unchanged.                                            *)
(***************************************************************************)
C19_EveryUntypedObjectBackfilled ==
    \A x \in Indexed :
        IF Untyped(StoredAt(x))
        THEN IndexedAt(x) =
                [StoredAt(x) EXCEPT !.apiVersion = GVString(GVOf(ResourceOf(x[1]))),
                                    !.kind = ResourceOf(x[1]).kind]
        ELSE IndexedAt(x) = StoredAt(x)

C19_BackfilledWhenKindResolves ==
    \A x \in Indexed :
        LET gvk == KindFor(allGroupResources, x[1])
        IN IF Untyped(StoredAt(x)) /\ gvk # EmptyGVK
           THEN /\ gvk.kind = ResourceOf(x[1]).kind
                /\ IndexedAt(x) =
                      [StoredAt(x) EXCEPT !.apiVersion = GVString(GVOf(ResourceOf(x[1]))),
                                          !.kind = ResourceOf(x[1]).kind]
           ELSE IndexedAt(x) = StoredAt(x)

(***************************************************************************)
(* C19 as amended: a fetched object whose apiVersion and kind are empty is *)
(* indexed with the group/version and kind of the resource type it was     *)
(* listed under when the mapper built from the first discovery call        *)
(* resolves a kind for that type, and is indexed unchanged, with both      *)
(* empty, when it resolves none; an object that carries an apiVersion and  *)
(* kind is indexed unchanged; no indexed object is modified afterwards.    *)
(***************************************************************************)
C19_BackfillAndFreeze == [] C19_BackfilledWhenKindResolves /\ [][IndexKept]_vars

\* a finished run that indexed one untyped object unchanged, because its
\* group/version failed in the first discovery call only
C19_Witness ==
    /\ returned = "nil"
    /\ \E x \in Indexed : Untyped(StoredAt(x)) /\ Untyped(IndexedAt(x))

====
